---- MODULE Spec2Model ----
(***************************************************************************)
(* Live document synchronisation of go-pacemaker: the notification glue of *)
(* cib.c (two revisions: the patching one, cib.c:1-75, and the re-querying *)
(* one, cib.c:76-153) together with OpenCib / Close of the Go binding.     *)
(***************************************************************************)
EXTENDS Integers, Sequences, FiniteSets, TLC

\* ------------------------------------------------------------------ bounds
\* number of updates each CIB receives
MaxVer == 3
\* number of xmlNode documents that can be allocated
MaxAddr == 2

\* --------------------------------------------------------------- constants
pcmk_ok == 0
\* errno ENOTCONN / EPROTONOSUPPORT, pcmk_err_diff_failed / pcmk_err_diff_resync
NotConn == -107
RcErr == {NotConn, -93}
DiffFailed == -206
DiffResync == -207

Handles == {"A", "B"}
NoSess == "NULL"
\* xmlNode pointers: NULL, a wild (uninitialised) pointer, or an address
NULL == 0
WILD == -1
Addr == 1..MaxAddr

MaxTok == 10       \* number of tokens of a document handed to a decoder
MaxOpen == 4       \* number of elements of a document open at once
Nil == 0           \* a nil *string
NoDec == [fn |-> "none", at |-> 0, pos |-> 0, err |-> FALSE, val |-> [kind |-> "none"]]

MaxSess == 3         \* number of sessions the monitor example can open
MaxStatus == 4       \* Decode is called while Status has fewer entries
MonSess == 1..MaxSess
NoCib == 0

\* A CIB document: its version counter and two pieces of content.
Docs == [num_updates : 0..MaxVer, a : 0..1, b : 0..1]
NoDoc == [num_updates |-> -1, a |-> 0, b |-> 0]
NoDiff == [src |-> -1, chg |-> {}, digest |-> NoDoc]
NoMsg == [h |-> "NONE", diff |-> NoDiff]

\* Handle A is opened on a CIB at version 0 that receives MaxVer updates,
\* handle B on another, quiescent CIB at version 1.
InitDoc(h) == IF h = "A" THEN [num_updates |-> 0, a |-> 0, b |-> 0]
                         ELSE [num_updates |-> 1, a |-> 0, b |-> 0]

MaxUpdates(h) == IF h = "A" THEN MaxVer ELSE 1

VARIABLES
  impl,           \* which revision of cib.c is built: "patch" or "requery"
  sess,           \* per handle: state of its cib_t ("none","on","lost","deleted")
  dnotify,        \* per handle: go_cib_destroy_cb set as connection destroy-notify
  diffcb,         \* per handle: go_cib_notify_cb registered for T_CIB_DIFF_NOTIFY
  queue,          \* per handle: diff notifications not yet dispatched
  cibDoc,         \* per handle: the document held by the CIB it is connected to
  inflight,       \* the notification the main loop has dispatched, or NoMsg
  s_cib,          \* static cib_t *s_cib
  s_current_cib,  \* static xmlNode *s_current_cib
  heap,           \* xmlNode documents by address (NoDoc: not allocated)
  pubVal,         \* per address: the document as it was when handed to the callback
  subState,       \* per handle: "Unsubscribed", "Subscribed", "Lost"
  crashed,        \* the process died on an invalid pointer
  streak,         \* history: patches accepted in a row since the cache was last
                  \* filled, cleared or hit by a rejected patch
  frozen,         \* history: the cached document as it was before a rejected
                  \* patch, until a full query replaces the cache (else NoDoc)
  last,           \* what the last step did: operation, handle, calls made
  \* the monitor example (examples/mon.go)
  state,          \* main's state: 0 waiting for an event, 1 reconnecting
  cib,            \* main's cib: the session the monitor holds, or NoCib
  restarter,      \* senders blocked on the unbuffered channel restarter
  conn,           \* per monitor session: "none", "on", "lost", "closed"
  listening,      \* monitor sessions whose Subscribe succeeded
  started,        \* main has passed its first connectToCib
  monLast,        \* the calls of main's last step and the session it held before
  \* the XML decoders (unnamed/part_001, part_003, pacemaker.go)
  xmldata,        \* the document handed to the decoder, as the tokens of xml.Decoder
  open,           \* names of the elements of xmldata not yet closed
  loopvar,        \* range-loop variable of the build: "shared" or "periter"
  dec,            \* the decoder call made on xmldata and what it returned, or NoDec
  \* the query functions of a handle (unnamed/part_003)
  apiDoc,         \* the document the CIB of the handle holds
  decoded,        \* cib.Attr and cib.Status of the handle as last decoded
  apiLast,        \* the last call on the handle: queries made, what it returned
  options         \* the options collected for a call of OpenCib

cibVars == <<impl, sess, dnotify, diffcb, queue, cibDoc, inflight, s_cib,
             s_current_cib, heap, pubVal, subState, crashed, streak, frozen, last>>

monVars == <<state, cib, restarter, conn, listening, started, monLast>>

decVars == <<xmldata, open, loopvar, dec>>

apiVars == <<apiDoc, decoded, apiLast, options>>

nonCibVars == <<monVars, decVars, apiVars>>

vars == <<cibVars, monVars, decVars, apiVars>>

\* A call made by a step: function, the session it went through, whether that
\* session had been deleted, its return code and its document argument/result.
Call(fn, via, dead, rc, doc) ==
  [fn |-> fn, via |-> via, dead |-> dead, rc |-> rc, doc |-> doc]

Step(op, h, pre, calls, ret) ==
  [op |-> op, h |-> h, pre |-> pre, calls |-> calls, ret |-> ret]

NoErr == [code |-> 0, text |-> "nil"]
Absent == -1
Undecoded == [Attr |-> -1, Status |-> <<>>]

\* a handle on which nothing has been called
ApiStart ==
  /\ apiDoc = [admin_epoch |-> 1, epoch |-> 0, num_updates |-> 0, status |-> <<1>>]
  /\ decoded = Undecoded
  /\ apiLast = [op |-> "init", calls |-> <<>>, err |-> NoErr, ret |-> -1,
                pre |-> Undecoded, root |-> apiDoc]
  /\ options = <<>>

\* no document has been handed to a decoder
DecStart ==
  /\ xmldata = <<>>
  /\ open = <<>>
  /\ dec = NoDec

\* examples/mon.go before main runs
MonStart ==
  /\ state = 0
  /\ cib = NoCib
  /\ restarter = 0
  /\ conn = [x \in MonSess |-> "none"]
  /\ listening = {}
  /\ started = FALSE
  /\ monLast = [op |-> "init", held |-> NoCib, calls |-> <<>>]

CibStart ==
  /\ sess = [h \in Handles |-> "none"]
  /\ dnotify = [h \in Handles |-> FALSE]
  /\ diffcb = [h \in Handles |-> FALSE]
  /\ queue = [h \in Handles |-> <<>>]
  /\ cibDoc = [h \in Handles |-> InitDoc(h)]
  /\ inflight = NoMsg
  /\ s_cib = NoSess
  /\ s_current_cib = NULL
  /\ heap = [x \in Addr |-> NoDoc]
  /\ pubVal = [x \in Addr |-> NoDoc]
  /\ subState = [h \in Handles |-> "Unsubscribed"]
  /\ crashed = FALSE
  /\ streak = 0
  /\ frozen = NoDoc
  /\ last = Step("init", "NONE", NULL, <<>>, pcmk_ok)

Init ==
  /\ impl \in {"patch", "requery"}
  /\ CibStart
  /\ MonStart
  /\ DecStart
  /\ loopvar = "shared"
  /\ ApiStart

\* A step of the environment leaves no trace of a program operation.
Idle == Step("env", "NONE", NULL, <<>>, pcmk_ok)

\* ------------------------------------------------------------ the cluster
Flip(v) == 1 - v

\* What an update of a document at version v may touch.  The update made to
\* version 1 is the one whose diff can meet the other CIB's document, so it
\* is the one that may touch either part or all of the content.
ChangeSets(v) == IF v = 1 THEN {{"a"}, {"a", "b"}} ELSE {{"a", "b"}}

Changed(doc, chg) ==
  [num_updates |-> doc.num_updates + 1,
   a |-> IF "a" \in chg THEN Flip(doc.a) ELSE doc.a,
   b |-> IF "b" \in chg THEN Flip(doc.b) ELSE doc.b]

\* The CIB handle h is connected to is updated; a signed-on session with a
\* diff callback gets a notification carrying the diff.
CibUpdate(h) ==
  /\ ~crashed
  /\ sess[h] = "on"
  /\ cibDoc[h].num_updates < MaxUpdates(h)
  /\ \E chg \in ChangeSets(cibDoc[h].num_updates) :
       LET new == Changed(cibDoc[h], chg)
           diff == [src |-> cibDoc[h].num_updates, chg |-> chg, digest |-> new]
       IN /\ cibDoc' = [cibDoc EXCEPT ![h] = new]
          /\ queue' = IF sess[h] = "on" /\ diffcb[h]
                        THEN [queue EXCEPT ![h] = Append(@, diff)]
                        ELSE queue
  /\ last' = Idle
  /\ UNCHANGED <<nonCibVars, impl, sess, dnotify, diffcb, inflight, s_cib, s_current_cib,
                 heap, pubVal, subState, crashed, streak, frozen>>

\* The main loop takes the next notification of session h and enters
\* go_cib_notify_cb with it.
NotifyDispatch(h) ==
  /\ ~crashed
  /\ inflight = NoMsg
  /\ sess[h] = "on"
  /\ diffcb[h]
  /\ queue[h] # <<>>
  /\ inflight' = [h |-> h, diff |-> Head(queue[h])]
  /\ queue' = [queue EXCEPT ![h] = Tail(@)]
  /\ last' = Idle
  /\ UNCHANGED <<nonCibVars, impl, sess, dnotify, diffcb, cibDoc, s_cib, s_current_cib,
                 heap, pubVal, subState, crashed, streak, frozen>>

\* ---------------------------------------------------- external primitives
\* xml_apply_patchset(xml, patchset, TRUE): patches xml in place.  The version
\* check rejects a diff made against another version and leaves xml alone; a
\* diff whose result does not match its digest is rejected after xml was changed.
Patched(doc, diff) ==
  [num_updates |-> diff.digest.num_updates,
   a |-> IF "a" \in diff.chg THEN diff.digest.a ELSE doc.a,
   b |-> IF "b" \in diff.chg THEN diff.digest.b ELSE doc.b]

xml_apply_patchset(doc, diff) ==
  IF doc.num_updates # diff.src
    THEN [rc |-> DiffResync, doc |-> doc]
    ELSE IF Patched(doc, diff) = diff.digest
           THEN [rc |-> pcmk_ok, doc |-> Patched(doc, diff)]
           ELSE [rc |-> DiffFailed, doc |-> Patched(doc, diff)]

Dead(s) == s = NoSess \/ sess[s] \in {"none", "deleted"}

QOut(crash, rc, doc) == [crash |-> crash, rc |-> rc, doc |-> doc]

FreeAddr == {x \in Addr : heap[x] = NoDoc}
NewAddr == CHOOSE x \in FreeAddr : \A y \in FreeAddr : x <= y

\* s->cmds->query(s, NULL, &out, cib_scope_local | cib_sync_call): the outcomes.
\* Through a deleted cib_t the call is undefined: it may kill the process,
\* fail, or still answer from what the freed memory holds.  A signed-on
\* session answers with the CIB's document or fails; a session that lost its
\* connection fails.  No document can be returned once memory is exhausted.
QueryResults(s) ==
  LET fails == {QOut(FALSE, NotConn, NoDoc)}
      room(S) == IF FreeAddr = {} THEN {} ELSE S
  IN IF Dead(s)
       THEN {QOut(TRUE, pcmk_ok, NoDoc)} \cup fails
              \cup room({QOut(FALSE, pcmk_ok, cibDoc[h]) : h \in Handles})
       ELSE IF sess[s] = "on"
              THEN fails \cup room({QOut(FALSE, pcmk_ok, cibDoc[s])})
              ELSE fails

\* ------------------------------------------------------------------ cib.c
\* diffNotifyCallback(doc), as called at the end of go_cib_notify_cb
Publish(doc) == Call("diffNotifyCallback", NoSess, FALSE, pcmk_ok, doc)

\* The process dies inside the handler for session h after the given calls.
Crash(h, calls) ==
  /\ crashed' = TRUE
  /\ last' = Step("notify", h, s_current_cib, calls, pcmk_ok)
  /\ UNCHANGED <<nonCibVars, impl, sess, dnotify, diffcb, queue, cibDoc, inflight, s_cib,
                 s_current_cib, heap, pubVal, subState, streak, frozen>>

\* go_cib_notify_cb returns for session h: the static cache is cur, the heap
\* is hp, and doc was handed to diffNotifyCallback as the last of calls.
Handled(h, cur, hp, doc, calls, n, fz) ==
  /\ s_current_cib' = cur
  /\ heap' = hp
  /\ pubVal' = IF doc \in Addr /\ pubVal[doc] = NoDoc
                 THEN [pubVal EXCEPT ![doc] = hp[doc]]
                 ELSE pubVal
  /\ inflight' = NoMsg
  /\ streak' = n
  /\ frozen' = fz
  /\ last' = Step("notify", h, s_current_cib, calls, pcmk_ok)
  /\ UNCHANGED <<nonCibVars, impl, sess, dnotify, diffcb, queue, cibDoc, s_cib, subState,
                 crashed>>

\* a handler that queries into a local and leaves the static cache alone
CacheAfterQuery_local(out) == NULL

\* cib.c:36: the query writes its result through &s_current_cib
CacheAfterQuery(out) == out

\* a handler that patches a copy and never swaps it in
HeapAfterPatch_copy(hp, cur, doc) == hp

\* cib.c:38: xml_apply_patchset works on the cached document itself
HeapAfterPatch(hp, cur, doc) == [hp EXCEPT ![cur] = doc]

\* cib.c:29-43: with no cached document, query one through s_cib; otherwise
\* patch the cached document in place; rc is dropped; publish s_current_cib.
go_cib_notify_cb(h) ==
  /\ ~crashed
  /\ impl = "patch"
  /\ inflight.h = h
  /\ IF s_current_cib = NULL
       THEN \E o \in QueryResults(s_cib) :
              LET out == IF o.doc = NoDoc THEN NULL ELSE NewAddr
                  q == Call("query", s_cib, Dead(s_cib), o.rc, out)
                  hp == IF out = NULL THEN heap ELSE [heap EXCEPT ![out] = o.doc]
                  cur == CacheAfterQuery(out)
              IN IF o.crash
                   THEN Crash(h, <<q>>)
                   ELSE Handled(h, cur, hp, cur, <<q, Publish(cur)>>, 0,
                                IF out = NULL THEN frozen ELSE NoDoc)
       ELSE LET r == xml_apply_patchset(heap[s_current_cib], inflight.diff)
                p == Call("xml_apply_patchset", NoSess, FALSE, r.rc, s_current_cib)
                hp == HeapAfterPatch(heap, s_current_cib, r.doc)
            IN Handled(h, s_current_cib, hp, s_current_cib,
                       <<p, Publish(s_current_cib)>>,
                       IF r.rc = pcmk_ok THEN streak + 1 ELSE 0,
                       IF r.rc = pcmk_ok THEN frozen
                       ELSE IF frozen = NoDoc THEN heap[s_current_cib]
                       ELSE frozen)

\* cib.c:109-122: always query through s_cib into the local current_cib,
\* publish it and free it.  current_cib is not initialised: after a failed
\* query it is NULL if the callee cleared it and a wild pointer otherwise, and
\* free_xml of a wild pointer may kill the process.
RequeryOutcomes(o) ==
  IF o.doc # NoDoc
    THEN {[doc |-> NewAddr, crash |-> FALSE]}
    ELSE {[doc |-> NULL, crash |-> FALSE], [doc |-> WILD, crash |-> FALSE],
          [doc |-> WILD, crash |-> TRUE]}

go_cib_notify_cb_requery(h) ==
  /\ ~crashed
  /\ impl = "requery"
  /\ inflight.h = h
  /\ \E o \in QueryResults(s_cib) :
       \E f \in RequeryOutcomes(o) :
         LET q == Call("query", s_cib, Dead(s_cib), o.rc, f.doc)
             fr == Call("free_xml", NoSess, FALSE, pcmk_ok, f.doc)
         IN IF o.crash
              THEN Crash(h, <<q>>)
              ELSE IF f.crash
                     THEN Crash(h, <<q, Publish(f.doc), fr>>)
                     ELSE /\ pubVal' = IF f.doc \in Addr
                                         THEN [pubVal EXCEPT ![f.doc] = o.doc]
                                         ELSE pubVal
                          /\ inflight' = NoMsg
                          /\ last' = Step("notify", h, s_current_cib,
                                          <<q, Publish(f.doc), fr>>, pcmk_ok)
                          /\ UNCHANGED <<nonCibVars, impl, sess, dnotify, diffcb, queue,
                                         cibDoc, s_cib, s_current_cib, heap,
                                         subState, crashed, streak, frozen>>

\* a destroy handler that also drops the cached document
go_cib_destroy_cb_reset(h) ==
  /\ ~crashed
  /\ inflight = NoMsg
  /\ sess[h] = "on"
  /\ dnotify[h]
  /\ sess' = [sess EXCEPT ![h] = "lost"]
  /\ queue' = [queue EXCEPT ![h] = <<>>]
  /\ subState' = [subState EXCEPT ![h] = IF @ = "Subscribed" THEN "Lost" ELSE @]
  /\ s_current_cib' = NULL
  /\ last' = Step("destroy", h, s_current_cib,
                  <<Call("destroyNotifyCallback", NoSess, FALSE, pcmk_ok, NULL)>>,
                  pcmk_ok)
  /\ UNCHANGED <<nonCibVars, impl, dnotify, diffcb, cibDoc, inflight, s_cib,
                 heap, pubVal, crashed, streak, frozen>>

\* cib.c:21-24, run by the main loop when the connection of session h is torn
\* down: notifications not yet dispatched are gone with the connection.
go_cib_destroy_cb(h) ==
  /\ ~crashed
  /\ inflight = NoMsg
  /\ sess[h] = "on"
  /\ dnotify[h]
  /\ sess' = [sess EXCEPT ![h] = "lost"]
  /\ queue' = [queue EXCEPT ![h] = <<>>]
  /\ subState' = [subState EXCEPT ![h] = IF @ = "Subscribed" THEN "Lost" ELSE @]
  /\ last' = Step("destroy", h, s_current_cib,
                  <<Call("destroyNotifyCallback", NoSess, FALSE, pcmk_ok, NULL)>>,
                  pcmk_ok)
  /\ UNCHANGED <<nonCibVars, impl, dnotify, diffcb, cibDoc, inflight, s_cib, s_current_cib,
                 heap, pubVal, crashed, streak, frozen>>

\* The connection of a session without destroy-notify is torn down.
ConnectionDrop(h) ==
  /\ ~crashed
  /\ sess[h] = "on"
  /\ ~dnotify[h]
  /\ sess' = [sess EXCEPT ![h] = "lost"]
  /\ queue' = [queue EXCEPT ![h] = <<>>]
  /\ last' = Idle
  /\ UNCHANGED <<nonCibVars, impl, dnotify, diffcb, cibDoc, inflight, s_cib, s_current_cib,
                 heap, pubVal, subState, crashed, streak, frozen>>

\* cib.c:46-65 and cib.c:125-144: the calls made, given what each step returns
RegisterCalls(h, rc1, rc2, rc3) ==
  LET c1 == Call("set_connection_dnotify", h, FALSE, rc1, NULL)
      c2 == Call("del_notify_callback", h, FALSE, rc2, NULL)
      c3 == Call("add_notify_callback", h, FALSE, rc3, NULL)
  IN IF rc1 # pcmk_ok THEN <<c1>>
     ELSE IF rc2 # pcmk_ok THEN <<c1, c2>>
     ELSE <<c1, c2, c3>>

\* cib.c:52-64 returns the failing step's code; cib.c:130-143 leaves through
\* "exit: return pcmk_ok"
RegisterReturn(rc1, rc2, rc3) ==
  IF impl = "requery" THEN pcmk_ok
  ELSE IF rc1 # pcmk_ok THEN rc1
  ELSE IF rc2 # pcmk_ok THEN rc2
  ELSE rc3

\* a registration that keeps the document cached for the session before
CacheAfterRegister_keep(cur) == cur

\* cib.c:50: s_current_cib = NULL (the re-query revision has no cache, cib.c:128)
CacheAfterRegister(cur) == IF impl = "patch" THEN NULL ELSE cur

go_cib_register_notify_callbacks(h, rc1, rc2, rc3) ==
  /\ s_cib' = h
  /\ s_current_cib' = CacheAfterRegister(s_current_cib)
  /\ dnotify' = IF rc1 = pcmk_ok THEN [dnotify EXCEPT ![h] = TRUE] ELSE dnotify
  /\ diffcb' = IF rc1 = pcmk_ok /\ rc2 = pcmk_ok
                 THEN [diffcb EXCEPT ![h] = (rc3 = pcmk_ok)]
                 ELSE diffcb
  /\ streak' = IF impl = "patch" THEN 0 ELSE streak
  /\ frozen' = IF impl = "patch" THEN NoDoc ELSE frozen
  /\ last' = Step("subscribe", h, s_current_cib, RegisterCalls(h, rc1, rc2, rc3),
                  RegisterReturn(rc1, rc2, rc3))

\* Cib.Subscribe: registers the handlers for the handle's session and is
\* subscribed when the registration reports success.
Subscribe(h) ==
  /\ ~crashed
  /\ sess[h] \in {"on", "lost"}
  /\ subState[h] = "Unsubscribed"
  /\ \E k \in 0..3, e \in RcErr :
       LET rc1 == IF k = 1 THEN e ELSE pcmk_ok
           rc2 == IF k = 2 THEN e ELSE pcmk_ok
           rc3 == IF k = 3 THEN e ELSE pcmk_ok
       IN
       /\ go_cib_register_notify_callbacks(h, rc1, rc2, rc3)
       /\ subState' = IF RegisterReturn(rc1, rc2, rc3) = pcmk_ok
                        THEN [subState EXCEPT ![h] = "Subscribed"]
                        ELSE subState
  /\ UNCHANGED <<nonCibVars, impl, sess, queue, cibDoc, inflight, heap, pubVal, crashed>>

\* Unsubscribe: removes the notification registration of the handle; a
\* notification already dispatched still runs.
Unsubscribe(h) ==
  /\ ~crashed
  /\ sess[h] \in {"on", "lost"}
  /\ subState[h] = "Subscribed"
  /\ subState' = [subState EXCEPT ![h] = "Unsubscribed"]
  /\ dnotify' = [dnotify EXCEPT ![h] = FALSE]
  /\ diffcb' = [diffcb EXCEPT ![h] = FALSE]
  /\ queue' = [queue EXCEPT ![h] = <<>>]
  /\ last' = Step("unsubscribe", h, s_current_cib, <<>>, pcmk_ok)
  /\ UNCHANGED <<nonCibVars, impl, sess, cibDoc, inflight, s_cib, s_current_cib, heap,
                 pubVal, crashed, streak, frozen>>

\* ------------------------------------------------------ the Go binding
\* OpenCib (part_003:239-278): a new handle, signed on, or nil and the error
OpenCib(h) ==
  /\ ~crashed
  /\ sess[h] = "none"
  /\ h = "B" => sess["A"] # "none"
  /\ \E rc \in {pcmk_ok, NotConn} :
       /\ sess' = [sess EXCEPT ![h] = IF rc = pcmk_ok THEN "on" ELSE "none"]
       /\ last' = Step("open", h, s_current_cib,
                       <<Call("signon", h, FALSE, rc, NULL)>>, rc)
  /\ UNCHANGED <<nonCibVars, impl, dnotify, diffcb, queue, cibDoc, inflight, s_cib,
                 s_current_cib, heap, pubVal, subState, crashed, streak, frozen>>

\* Cib.Close (part_003:286-294): signoff, then cib_delete and cCib = nil.
\* Signing off a connected session tears its connection down, which runs the
\* destroy-notify set on it.
Close(h) ==
  /\ ~crashed
  /\ sess[h] \in {"on", "lost"}
  /\ \E rc \in {pcmk_ok, NotConn} :
       LET off == Call("signoff", h, FALSE, rc, NULL)
           fire == sess[h] = "on" /\ dnotify[h]
           lostcb == Call("destroyNotifyCallback", NoSess, FALSE, pcmk_ok, NULL)
           del == Call("cib_delete", h, FALSE, pcmk_ok, NULL)
       IN IF rc # pcmk_ok
            THEN /\ last' = Step("close", h, s_current_cib, <<off>>, rc)
                 /\ UNCHANGED <<sess, dnotify, diffcb, queue, subState>>
            ELSE /\ sess' = [sess EXCEPT ![h] = "deleted"]
                 /\ dnotify' = [dnotify EXCEPT ![h] = FALSE]
                 /\ diffcb' = [diffcb EXCEPT ![h] = FALSE]
                 /\ queue' = [queue EXCEPT ![h] = <<>>]
                 /\ subState' = [subState EXCEPT ![h] =
                                   IF fire /\ @ = "Subscribed" THEN "Lost" ELSE @]
                 /\ last' = Step("close", h, s_current_cib,
                                 IF fire THEN <<off, lostcb, del>> ELSE <<off, del>>,
                                 rc)
  /\ UNCHANGED <<nonCibVars, impl, cibDoc, inflight, s_cib, s_current_cib, heap, pubVal,
                 crashed, streak, frozen>>

Next ==
  \E h \in Handles :
    \/ OpenCib(h)
    \/ Close(h)
    \/ Subscribe(h)
    \/ Unsubscribe(h)
    \/ CibUpdate(h)
    \/ ConnectionDrop(h)
    \/ NotifyDispatch(h)
    \/ go_cib_notify_cb(h)
    \/ go_cib_notify_cb_requery(h)
    \/ go_cib_destroy_cb(h)

Spec == Init /\ [][Next]_vars

TypeOK ==
  /\ impl \in {"patch", "requery"}
  /\ s_cib \in Handles \cup {NoSess}
  /\ s_current_cib \in Addr \cup {NULL}
  /\ \A x \in Addr : heap[x] \in Docs \cup {NoDoc}
  /\ s_current_cib \in Addr => heap[s_current_cib] \in Docs
  /\ (\E h \in Handles : diffcb[h]) => s_cib # NoSess
  /\ inflight.h # "NONE" => s_cib # NoSess

\* ------------------------------------------------------------ helpers
CallsOf(fn) == {i \in 1..Len(last.calls) : last.calls[i].fn = fn}

\* the document the last handler run handed to diffNotifyCallback
PublishedDoc == last.calls[CHOOSE i \in CallsOf("diffNotifyCallback") : TRUE].doc

RECURSIVE Replay(_, _)
\* the cached document after the pending diffs, or NoDoc if one is rejected
Replay(doc, diffs) ==
  IF diffs = <<>> THEN doc
  ELSE LET r == xml_apply_patchset(doc, Head(diffs))
       IN IF r.rc = pcmk_ok THEN Replay(r.doc, Tail(diffs)) ELSE NoDoc

\* the handler for a notification of a still subscribed, connected session
\* has just returned after accepting its diff
PatchedInOrder ==
  /\ impl = "patch"
  /\ ~crashed
  /\ last.op = "notify"
  /\ streak >= 1
  /\ sess[last.h] = "on"
  /\ diffcb[last.h]

\* C1: in the patching revision, once the handler has accepted the diffs of
\* the notifications it was given since the cache was filled (none rejected),
\* the cached document is the one a full query through that session returns
\* after the same updates: replaying the diffs still pending on the cache
\* gives exactly the CIB's current document, at every interleaving of updates
\* and deliveries.
C1_CacheEqualsRequery ==
  PatchedInOrder =>
    Replay(heap[s_current_cib], queue[last.h]) = cibDoc[last.h]

\* two diffs were accepted in a row and nothing is pending
C1_Witness ==
  /\ PatchedInOrder
  /\ streak >= 2
  /\ queue[last.h] = <<>>
  /\ heap[s_current_cib] = cibDoc[last.h]

Rejected(st) ==
  \E i \in 1..Len(st.calls) :
    st.calls[i].fn = "xml_apply_patchset" /\ st.calls[i].rc # pcmk_ok

\* C2: when xml_apply_patchset rejects a diff in the handler, the cached
\* document is what it was before that notification and stays so until a
\* full query has replaced it.
C2_RejectedPatchKeepsCache ==
  (impl = "patch" /\ ~crashed /\ frozen # NoDoc) =>
    (s_current_cib \in Addr /\ heap[s_current_cib] = frozen)

\* C3: a handler run whose patch was rejected then queries the full document,
\* makes the result the cache and hands that result, not the outcome of the
\* failed patch, to the subscriber callback.
C3_RejectedPatchRequeried ==
  (impl = "patch" /\ ~crashed /\ last.op = "notify" /\ Rejected(last)) =>
    \E j \in CallsOf("query") :
      /\ \A i \in CallsOf("xml_apply_patchset") : i < j
      /\ \A k \in CallsOf("diffNotifyCallback") : j < k
      /\ s_current_cib = last.calls[j].doc
      /\ PublishedDoc = last.calls[j].doc

\* C4: a handler run that found no cached document made exactly one query,
\* through s_cib, and no patch; what the query returned is the cached
\* document (the CIB's document when the query succeeded on a live session),
\* and it is what was handed to the subscriber callback.
C4_NoCacheOneQuery ==
  (impl = "patch" /\ ~crashed /\ last.op = "notify" /\ last.pre = NULL) =>
    /\ Len(last.calls) = 2
    /\ last.calls[1].fn = "query"
    /\ last.calls[1].via = s_cib
    /\ last.calls[2].fn = "diffNotifyCallback"
    /\ s_current_cib = last.calls[1].doc
    /\ last.calls[2].doc = s_current_cib
    /\ (last.calls[1].rc = pcmk_ok <=> s_current_cib \in Addr)
    /\ (last.calls[1].rc = pcmk_ok /\ ~last.calls[1].dead) =>
         heap[s_current_cib] = cibDoc[s_cib]

\* the first notification of a live session was answered by a query
C4_Witness ==
  /\ impl = "patch"
  /\ ~crashed
  /\ last.op = "notify"
  /\ last.pre = NULL
  /\ s_current_cib \in Addr
  /\ ~last.calls[1].dead
  /\ heap[s_current_cib] = cibDoc[last.h]

\* C5: a document handed to the subscriber callback is never modified
\* afterwards, and what is handed over is never a document on which a
\* rejected diff was partly applied.
C5_PublishedNeverModified ==
  impl = "patch" =>
    /\ \A x \in Addr : pubVal[x] # NoDoc => heap[x] = pubVal[x]
    /\ ~(/\ last.op = "notify"
         /\ CallsOf("diffNotifyCallback") # {}
         /\ \E i \in CallsOf("xml_apply_patchset") : last.calls[i].rc = DiffFailed)

\* C6: a notification delivered by a handle's session is handled through
\* that handle's own session, and a subscription of one handle leaves the
\* session pointer and the cache in use for another subscribed handle alone.
C6_OwnSessionOwnCache ==
  /\ last.op = "notify" =>
       \A i \in CallsOf("query") : last.calls[i].via = last.h
  /\ last.op = "subscribe" =>
       \A g \in Handles \ {last.h} :
         subState[g] = "Subscribed" => (s_cib = g /\ s_current_cib = last.pre)

LostPublished(st) ==
  /\ st.op \in {"destroy", "close"}
  /\ \E i \in 1..Len(st.calls) : st.calls[i].fn = "destroyNotifyCallback"

UpdatedPublished(st) ==
  /\ st.op = "notify"
  /\ \E i \in 1..Len(st.calls) : st.calls[i].fn = "diffNotifyCallback"

\* C7: a handle's subscription state moves only Unsubscribed -> Subscribed,
\* Subscribed -> Lost and Subscribed -> Unsubscribed; ConnectionLost is
\* published for a handle only while it is Subscribed; no Updated event is
\* published for a handle that is Lost.
C7_SubscriptionStateMachine ==
  [][ /\ \A h \in Handles :
           subState'[h] # subState[h] =>
             <<subState[h], subState'[h]>> \in
               { <<"Unsubscribed", "Subscribed">>, <<"Subscribed", "Lost">>,
                 <<"Subscribed", "Unsubscribed">> }
      /\ LostPublished(last') => subState[last'.h] = "Subscribed"
      /\ UpdatedPublished(last') => subState[last'.h] # "Lost"
    ]_vars

\* C8: a destroy notification publishes exactly one ConnectionLost and does
\* nothing else: no signon, no query, no registration, and the cached
\* document and s_cib stay as they were; the same holds of the destroy
\* notification a Close sets off.
C8_DestroyOnlyPublishes ==
  [][ /\ last'.op = "destroy" =>
           /\ last'.calls =
                <<Call("destroyNotifyCallback", NoSess, FALSE, pcmk_ok, NULL)>>
           /\ UNCHANGED <<s_cib, s_current_cib, heap, dnotify, diffcb>>
           /\ \A h \in Handles : sess'[h] = "on" => sess[h] = "on"
      /\ last'.op = "close" =>
           /\ Cardinality({i \in 1..Len(last'.calls) :
                             last'.calls[i].fn = "destroyNotifyCallback"}) <= 1
           /\ \A i \in 1..Len(last'.calls) :
                last'.calls[i].fn \notin {"query", "signon", "add_notify_callback"}
           /\ UNCHANGED <<s_cib, s_current_cib, heap>>
    ]_vars

\* the connection of the subscribed session behind a cached document was lost
C8_Witness ==
  /\ impl = "patch"
  /\ last.op = "destroy"
  /\ s_cib = last.h
  /\ s_current_cib \in Addr
  /\ subState[last.h] = "Lost"

\* C9: a notification in flight when its session is unsubscribed or closed
\* is handled without the process failing, and no call of the handler goes
\* through a session that Close has signed off and deleted.
C9_LateNotificationIsSafe ==
  (impl = "patch" /\ last.op = "notify") =>
    /\ ~crashed
    /\ \A i \in 1..Len(last.calls) : ~last.calls[i].dead

\* C10: go_cib_register_notify_callbacks returns the code of the first of its
\* three steps that fails, makes no later step, and returns pcmk_ok only when
\* all three succeeded.
C10_RegisterReturnsStepCode ==
  last.op = "subscribe" =>
    LET bad == {i \in 1..Len(last.calls) : last.calls[i].rc # pcmk_ok}
    IN IF bad = {}
         THEN last.ret = pcmk_ok /\ Len(last.calls) = 3
         ELSE /\ bad = {Len(last.calls)}
              /\ last.ret = last.calls[Len(last.calls)].rc
              /\ last.ret # pcmk_ok

\* ------------------------------------------------- examples/mon.go
\* A call made by main: function, session, and whether it succeeded.
MCall(fn, s, ok) == [fn |-> fn, s |-> s, ok |-> ok]

MStep(op, held, calls) == [op |-> op, held |-> held, calls |-> calls]

FreshSess == {x \in MonSess : conn[x] = "none"}
NewSess == CHOOSE x \in FreshSess : \A y \in FreshSess : x <= y

\* mon.go:85-114, connectToCib: OpenCib, then Query on the new session; nil
\* and the error when either fails (the session opened stays open then).
connectToCib ==
  {[calls |-> <<MCall("OpenCib", NoCib, FALSE)>>, ret |-> NoCib, opened |-> NoCib]}
  \cup
  (IF FreshSess = {} THEN {}
   ELSE {[calls |-> <<MCall("OpenCib", NewSess, TRUE),
                      MCall("Query", NewSess, q)>>,
          ret |-> IF q THEN NewSess ELSE NoCib,
          opened |-> NewSess] : q \in BOOLEAN})

\* a loop that gives up reconnecting after a failed attempt
StateAfterAttempt_giveup(st, ok) == 0

\* mon.go:137-144: state = 0 after listenToCib, unchanged after a failure
StateAfterAttempt(st, ok) == IF ok THEN 0 ELSE st

\* cib, err = connectToCib(); on success listenToCib(cib, restarter)
\* (mon.go:67-83: Subscribe, a failure of which is only logged).
Attempt(op, pre, cn) ==
  \E o \in connectToCib :
    \E subOk \in IF o.ret = NoCib THEN {FALSE} ELSE BOOLEAN :
      /\ cib' = o.ret
      /\ conn' = IF o.opened = NoCib THEN cn ELSE [cn EXCEPT ![o.opened] = "on"]
      /\ listening' = IF subOk THEN listening \cup {o.ret} ELSE listening
      /\ state' = StateAfterAttempt(state, o.ret # NoCib)
      /\ monLast' = MStep(op, cib,
                          IF o.ret = NoCib
                            THEN pre \o o.calls \o <<MCall("Sleep", NoCib, TRUE)>>
                            ELSE pre \o o.calls \o <<MCall("Subscribe", o.ret, subOk)>>)

\* mon.go:116-126: main's first connectToCib, before the loop
MainStart ==
  /\ ~started
  /\ started' = TRUE
  /\ Attempt("start", <<>>, conn)
  /\ UNCHANGED <<cibVars, decVars, apiVars, restarter>>

\* a receive that leaves the event it was given on the channel
MainReceive_keep ==
  /\ started
  /\ state = 0
  /\ restarter > 0
  /\ state' = 1
  /\ monLast' = MStep("receive", cib, <<>>)
  /\ UNCHANGED <<cibVars, decVars, apiVars, cib, conn, listening, started, restarter>>

\* mon.go:130-131: state = <-restarter
MainReceive ==
  /\ started
  /\ state = 0
  /\ restarter > 0
  /\ state' = 1
  /\ restarter' = restarter - 1
  /\ monLast' = MStep("receive", cib, <<>>)
  /\ UNCHANGED <<cibVars, decVars, apiVars, cib, conn, listening, started>>

\* The sends on restarter that the signoff of Close adds: signing off a
\* session that is still connected and subscribed tears its connection down,
\* which runs the callback of listenToCib (mon.go:75-77).
EventsOfClose(x, ok) ==
  IF ok /\ conn[x] = "on" /\ x \in listening THEN 1 ELSE 0

\* mon.go:132-145: one turn of the loop in state 1.  Close's error is ignored;
\* the session is released only when its signoff succeeded (part_003:286-294).
MainReconnect ==
  /\ started
  /\ state = 1
  /\ IF cib = NoCib
       THEN Attempt("reconnect", <<>>, conn) /\ UNCHANGED restarter
       ELSE \E ok \in BOOLEAN :
              /\ Attempt("reconnect", <<MCall("Close", cib, ok)>>,
                         IF ok THEN [conn EXCEPT ![cib] = "closed"] ELSE conn)
              /\ restarter' = restarter + EventsOfClose(cib, ok)
  /\ UNCHANGED <<cibVars, decVars, apiVars, started>>

\* The connection of a monitor session is lost; if the session is subscribed
\* the callback of listenToCib sends on restarter (mon.go:75-77).
MonConnectionLost(x) ==
  /\ started
  /\ conn[x] = "on"
  /\ conn' = [conn EXCEPT ![x] = "lost"]
  /\ restarter' = IF x \in listening THEN restarter + 1 ELSE restarter
  /\ monLast' = MStep("lost", cib, <<>>)
  /\ UNCHANGED <<cibVars, decVars, apiVars, state, cib, listening, started>>

MonNext ==
  \/ MainStart
  \/ MainReceive
  \/ MainReconnect
  \/ \E x \in MonSess : MonConnectionLost(x)

MonInit ==
  impl = "patch" /\ CibStart /\ MonStart /\ DecStart /\ loopvar = "shared" /\ ApiStart

MonSpec == MonInit /\ [][MonNext]_vars

MonCalls(fn) == {i \in 1..Len(monLast.calls) : monLast.calls[i].fn = fn}

C11_OneCallbackWithDocument ==
  (last.op = "notify" /\ ~crashed) =>
    /\ Cardinality(CallsOf("diffNotifyCallback")) = 1
    /\ \A i \in CallsOf("query") \cup CallsOf("xml_apply_patchset") :
         \A k \in CallsOf("diffNotifyCallback") : i < k
    /\ PublishedDoc \in Addr

\* ------------------------------------------------------ XML documents
\* A document is the sequence of tokens xml.Decoder.Token returns for it:
\* start elements with their attributes, and end elements.
StartTok(name, attr) == [k |-> "s", name |-> name, attr |-> attr]
EndTok(name) == [k |-> "e", name |-> name, attr |-> <<>>]
NilTok == [k |-> "nil", name |-> "", attr |-> <<>>]

AttributeSetNames == {"cluster_property_set", "meta_attributes"}

\* The elements of the configuration section the documents are made of.
Kids(parent) ==
  CASE parent = "" -> {"configuration", "meta_attributes", "rule", "primitive"}
    [] parent = "configuration" -> {"cluster_property_set", "rsc_defaults"}
    [] parent = "rsc_defaults" -> {"meta_attributes"}
    [] parent = "primitive" -> {"meta_attributes"}
    [] parent \in AttributeSetNames -> {"nvpair", "rule"}
    [] parent = "rule" -> {"expression", "rule"}
    [] parent = "resources" -> {"primitive", "group", "clone", "master", "template"}
    [] parent \in {"group", "clone", "master"} -> {"primitive"}
    [] OTHER -> {}

\* The attribute lists an element is written with, in document order.
AttrNames(name) ==
  CASE name = "nvpair" -> {<<"id", "name", "value">>, <<"name", "value", "id">>}
    [] name \in AttributeSetNames -> {<<"id">>, <<"id-ref", "score">>}
    [] name = "rule" -> {<<"id", "score">>}
    [] name \in {"expression", "primitive", "group", "clone", "master",
                 "template"} -> {<<"id">>}
    [] OTHER -> {<<>>}

\* Every attribute value of a document is different: 10 * token index + place.
Attrs(names, i) == [k \in 1..Len(names) |-> [n |-> names[k], v |-> 10 * i + k]]

\* The writer of the document adds a start element ...
StartElement(name, names) ==
  /\ dec = NoDec
  /\ Len(xmldata) < MaxTok
  /\ Len(open) < MaxOpen
  /\ IF open = <<>> THEN xmldata = <<>> /\ name \in Kids("")
                    ELSE name \in Kids(open[Len(open)])
  /\ names \in AttrNames(name)
  /\ xmldata' = Append(xmldata, StartTok(name, Attrs(names, Len(xmldata) + 1)))
  /\ open' = Append(open, name)
  /\ UNCHANGED <<cibVars, monVars, apiVars, loopvar, dec>>

\* ... or closes the innermost open element.
EndElement ==
  /\ dec = NoDec
  /\ Len(xmldata) < MaxTok
  /\ open # <<>>
  /\ xmldata' = Append(xmldata, EndTok(open[Len(open)]))
  /\ open' = SubSeq(open, 1, Len(open) - 1)
  /\ UNCHANGED <<cibVars, monVars, apiVars, loopvar, dec>>

\* The document is complete: every element is closed.
WellFormed == xmldata # <<>> /\ open = <<>>

\* decoder.Token(): the next token, or nil at the end of the input (at the
\* end of a truncated document nil comes with a syntax error).
Token(toks, pos) == IF pos <= Len(toks) THEN toks[pos] ELSE NilTok

\* Value of the attribute called n, or Nil
RECURSIVE AttrVal(_, _)
AttrVal(attr, n) ==
  IF attr = <<>> THEN Nil
  ELSE IF Head(attr).n = n THEN Head(attr).v ELSE AttrVal(Tail(attr), n)

HasAttr(attr, n) == \E i \in 1..Len(attr) : attr[i].n = n

\* ---------------------------------- unnamed/part_001: the decoders
\* What a decoder returns: the decoder's position afterwards and the value.
Ret(pos, val) == [pos |-> pos, val |-> val]

\* part_001:626-659, decodeTagImpl's token loop with a nil elemfn, as
\* decodeNVPair uses it: scan to the end tag that brings depth to zero.
RECURSIVE TagScan(_, _, _, _)
TagScan(toks, pos, name, depth) ==
  LET t == Token(toks, pos)
  IN IF t.k = "nil" THEN pos
     ELSE IF t.k = "s"
       THEN TagScan(toks, pos + 1, name, IF t.name = name THEN depth + 1 ELSE depth)
     ELSE IF t.name = name
       THEN IF depth = 1 THEN pos + 1 ELSE TagScan(toks, pos + 1, name, depth - 1)
     ELSE TagScan(toks, pos + 1, name, depth)

\* part_001:693-707: the attribute callback of decodeNVPair returns true, and
\* decodeTagImpl returns at once when it does (part_001:631-635): only the
\* first attribute is looked at.
NVPairAttrs(attr) == IF attr = <<>> THEN <<>> ELSE <<Head(attr)>>

\* part_001:691-709
decodeNVPair(toks, pos, se) ==
  LET seen == NVPairAttrs(se.attr)
      a == [kind |-> "nvpair",
            Id |-> AttrVal(seen, "id"), IdRef |-> AttrVal(seen, "id-ref"),
            Name |-> AttrVal(seen, "name"), Value |-> AttrVal(seen, "value")]
  IN IF se.attr = <<>> THEN Ret(TagScan(toks, pos, se.name, 1), a)
     ELSE Ret(pos, a)

\* decodeRuleExpression is called at part_001:733 and defined nowhere in
\* the sources: it decodes the expression element it is given.
decodeRuleExpression(toks, pos, se) ==
  Ret(TagScan(toks, pos, se.name, 1),
      [kind |-> "expression", Id |-> AttrVal(se.attr, "id")])

\* part_001:643-645: depth++ on a start tag with the name of the element
RuleDepth(depth, name) == IF name = "rule" THEN depth + 1 ELSE depth

RECURSIVE decodeRule(_, _, _)
RECURSIVE RuleLoop(_, _, _, _)
\* part_001:637-658 with the element callback of decodeRule (part_001:733-749)
RuleLoop(toks, pos, depth, a) ==
  LET t == Token(toks, pos)
  IN IF t.k = "nil" THEN Ret(pos, a)
     ELSE IF t.k = "s"
       THEN LET d == RuleDepth(depth, t.name)
                r == IF t.name = "expression"
                       THEN decodeRuleExpression(toks, pos + 1, t)
                     ELSE IF t.name = "rule"
                       THEN decodeRule(toks, pos + 1, t)
                     ELSE Ret(pos + 1, NoDec.val)
            IN RuleLoop(toks, r.pos, d,
                        IF r.val = NoDec.val THEN a
                        ELSE [a EXCEPT !.Expressions = Append(@, r.val)])
     ELSE IF t.name = "rule"
       THEN IF depth = 1 THEN Ret(pos + 1, a)
            ELSE RuleLoop(toks, pos + 1, depth - 1, a)
     ELSE RuleLoop(toks, pos + 1, depth, a)

\* part_001:711-751
decodeRule(toks, pos, se) ==
  RuleLoop(toks, pos, 1,
           [kind |-> "rule",
            Id |-> AttrVal(se.attr, "id"), IdRef |-> AttrVal(se.attr, "id-ref"),
            Score |-> AttrVal(se.attr, "score"), Expressions |-> <<>>])

\* &attr.Value taken in the range loop over se.Attr (part_001:756-767) and
\* read after the loop.  With one loop variable for all iterations every such
\* pointer reads the value of the last attribute; with a variable per
\* iteration it reads the value of its own attribute.
LoopPtr(attr, n) ==
  IF ~HasAttr(attr, n) THEN Nil
  ELSE IF loopvar = "shared" THEN attr[Len(attr)].v
  ELSE AttrVal(attr, n)

RECURSIVE AttributeSetLoop(_, _, _, _, _)
\* part_001:768-798
AttributeSetLoop(toks, pos, name, depth, a) ==
  LET t == Token(toks, pos)
  IN IF t.k = "nil" THEN Ret(pos, a)
     ELSE IF t.k = "s"
       THEN IF t.name = name
              THEN AttributeSetLoop(toks, pos + 1, name, depth + 1, a)
            ELSE IF depth = 1 /\ t.name = "nvpair"
              THEN LET n == decodeNVPair(toks, pos + 1, t)
                   IN AttributeSetLoop(toks, n.pos, name, depth,
                                       [a EXCEPT !.Values = Append(@, n.val)])
            ELSE IF depth = 1 /\ t.name = "rule"
              THEN LET r == decodeRule(toks, pos + 1, t)
                   IN AttributeSetLoop(toks, r.pos, name, depth,
                                       [a EXCEPT !.Rules = Append(@, r.val)])
            ELSE AttributeSetLoop(toks, pos + 1, name, depth, a)
     ELSE IF t.name = name
       THEN IF depth = 1 THEN Ret(pos + 1, a)
            ELSE AttributeSetLoop(toks, pos + 1, name, depth - 1, a)
     ELSE AttributeSetLoop(toks, pos + 1, name, depth, a)

\* part_001:753-800
decodeAttributeSet(toks, pos, se) ==
  AttributeSetLoop(toks, pos, se.name, 1,
                   [kind |-> "attribute_set",
                    Id |-> LoopPtr(se.attr, "id"),
                    IdRef |-> LoopPtr(se.attr, "id-ref"),
                    Score |-> LoopPtr(se.attr, "score"),
                    Rules |-> <<>>, Values |-> <<>>])

EmptyConfiguration ==
  [kind |-> "configuration", CrmConfig |-> <<>>, RscDefaults |-> <<>>,
   OpDefaults |-> <<>>]

RECURSIVE ConfigurationLoop(_, _, _)
\* part_001:803-841, decodeConfiguration
ConfigurationLoop(toks, pos, c) ==
  LET t == Token(toks, pos)
      a == decodeAttributeSet(toks, pos + 1, t)
  IN IF t.k = "nil" THEN Ret(pos, c)
     ELSE IF t.k = "s"
       THEN IF t.name = "cluster_property_set"
              THEN ConfigurationLoop(toks, a.pos,
                                     [c EXCEPT !.CrmConfig = Append(@, a.val)])
            ELSE IF t.name = "rsc_defaults"
              THEN ConfigurationLoop(toks, a.pos,
                                     [c EXCEPT !.RscDefaults = Append(@, a.val)])
            ELSE IF t.name = "op_defaults"
              THEN ConfigurationLoop(toks, a.pos,
                                     [c EXCEPT !.OpDefaults = Append(@, a.val)])
            ELSE ConfigurationLoop(toks, pos + 1, c)
     ELSE IF t.name = "configuration" THEN Ret(pos + 1, c)
     ELSE ConfigurationLoop(toks, pos + 1, c)

decodeConfiguration(toks, pos) == ConfigurationLoop(toks, pos, EmptyConfiguration)

\* ------------------------------------------------- decodeCibObjects
Revisions == {"part_001", "part_003", "pacemaker.go"}

RECURSIVE CibObjectsLoop(_, _, _)
\* part_001:667-689: the error of decoder.Token is dropped, the loop ends at
\* the first nil token and the function returns nil.
CibObjectsLoop(toks, pos, c) ==
  LET t == Token(toks, pos)
      r == decodeConfiguration(toks, pos + 1)
  IN IF t.k = "nil" THEN Ret(pos, c)
     ELSE IF t.k = "s" /\ t.name = "configuration"
       THEN CibObjectsLoop(toks, r.pos, r.val)
     ELSE CibObjectsLoop(toks, pos + 1, c)

\* xml.Unmarshal: an error when the document does not parse
UnmarshalError(toks, wf) == ~wf

\* The error decodeCibObjects returns (TRUE: non-nil).
\* part_001:667-689 returns nil after its loop.  part_003:440-463 tests
\* t == nil before err != nil, and Token returns a nil token with every error,
\* so it returns nil as well.  pacemaker.go:1052-1054 returns xml.Unmarshal's.
decodeCibObjectsError(rev, toks, wf) ==
  IF rev = "pacemaker.go" THEN UnmarshalError(toks, wf) ELSE FALSE

\* ------------------------------------- pacemaker.go: xml.Unmarshal
\* Index of the end tag of the element starting at token i (Len + 1 if the
\* document ends before it).
RECURSIVE EndFrom(_, _, _)
EndFrom(toks, pos, depth) ==
  IF pos > Len(toks) THEN pos
  ELSE IF toks[pos].k = "s" THEN EndFrom(toks, pos + 1, depth + 1)
  ELSE IF depth = 1 THEN pos
  ELSE EndFrom(toks, pos + 1, depth - 1)

MatchEnd(toks, i) == EndFrom(toks, i + 1, 1)

RECURSIVE ChildrenFrom(_, _, _)
ChildrenFrom(toks, pos, end) ==
  IF pos >= end THEN <<>>
  ELSE <<pos>> \o ChildrenFrom(toks, MatchEnd(toks, pos) + 1, end)

\* Indices of the start tags of the children of the element starting at i.
Children(toks, i) == ChildrenFrom(toks, i + 1, MatchEnd(toks, i))

\* pacemaker.go:412-415, cibAnyHolder: the name of the element and, as
\* ",innerxml", the raw XML between its start tag and its end tag.
cibAnyHolder(toks, i) ==
  [XMLName |-> toks[i].name, XML |-> SubSeq(toks, i + 1, MatchEnd(toks, i) - 1)]

\* pacemaker.go:493-507, cibAttributeSetMixin as CibMetaAttributes: id-ref,
\* id and score from the attributes, every child element as a cibAnyHolder.
UnmarshalAttributeSet(toks, i) ==
  LET kids == Children(toks, i)
  IN [IdRef |-> AttrVal(toks[i].attr, "id-ref"),
      Id |-> AttrVal(toks[i].attr, "id"),
      Score |-> AttrVal(toks[i].attr, "score"),
      Children |-> [k \in 1..Len(kids) |-> cibAnyHolder(toks, kids[k])]]

\* pacemaker.go:538-566, CibPrimitive with cibResourceMixin: the id and the
\* meta_attributes children.
UnmarshalPrimitive(toks, i) ==
  LET kids == SelectSeq(Children(toks, i),
                        LAMBDA k : toks[k].name = "meta_attributes")
  IN [kind |-> "primitive",
      Id |-> AttrVal(toks[i].attr, "id"),
      Meta |-> [k \in 1..Len(kids) |-> UnmarshalAttributeSet(toks, kids[k])]]

\* pacemaker.go:1013-1015, ToJson: json.Marshal writes every field under
\* its json name, nil pointers with omitempty left out; a cibAnyHolder has no
\* json names and is written with its fields XMLName and XML.
JsonAttributeSet(a) ==
  [kind |-> "json", fields |-> {f \in {"id-ref", "id", "score"} :
       (f = "id-ref" /\ a.IdRef # Nil) \/ (f = "id" /\ a.Id # Nil)
         \/ (f = "score" /\ a.Score # Nil)},
   idref |-> a.IdRef, id |-> a.Id, score |-> a.Score, children |-> a.Children]

ToJson(prim) ==
  [kind |-> "json", id |-> prim.Id,
   meta_attributes |-> [k \in 1..Len(prim.Meta) |-> JsonAttributeSet(prim.Meta[k])]]

\* ------------------------------------------ the decoder calls made
Dec(fn, at, r, err) == [fn |-> fn, at |-> at, pos |-> r.pos, err |-> err, val |-> r.val]

StartsNamed(names) ==
  {i \in 1..Len(xmldata) : xmldata[i].k = "s" /\ xmldata[i].name \in names}

\* decodeRule on a rule element of a complete document
DecodeRule(i) ==
  /\ dec = NoDec /\ WellFormed
  /\ i \in StartsNamed({"rule"})
  /\ dec' = Dec("decodeRule", i, decodeRule(xmldata, i + 1, xmldata[i]), FALSE)
  /\ UNCHANGED <<cibVars, monVars, apiVars, xmldata, open, loopvar>>

\* decodeAttributeSet on an attribute-set element of a complete document
DecodeAttributeSet(i) ==
  /\ dec = NoDec /\ WellFormed
  /\ i \in StartsNamed(AttributeSetNames)
  /\ dec' = Dec("decodeAttributeSet", i,
                decodeAttributeSet(xmldata, i + 1, xmldata[i]), FALSE)
  /\ UNCHANGED <<cibVars, monVars, apiVars, xmldata, open, loopvar>>

\* decodeConfiguration on the configuration element of a complete document
DecodeConfiguration ==
  /\ dec = NoDec /\ WellFormed
  /\ xmldata[1].name = "configuration"
  /\ dec' = Dec("decodeConfiguration", 1, decodeConfiguration(xmldata, 2), FALSE)
  /\ UNCHANGED <<cibVars, monVars, apiVars, xmldata, open, loopvar>>

\* Cib.decodeCibObjects of one of the revisions, on a complete document or one
\* that ends before all its elements are closed.  Of the xml.Unmarshal of
\* pacemaker.go only the error is kept.
DecodeCibObjects(rev) ==
  /\ dec = NoDec
  /\ xmldata # <<>>
  /\ dec' = Dec("decodeCibObjects", 1,
                IF rev = "pacemaker.go" THEN Ret(Len(xmldata) + 1, [kind |-> rev])
                ELSE CibObjectsLoop(xmldata, 1, EmptyConfiguration),
                decodeCibObjectsError(rev, xmldata, WellFormed))
  /\ UNCHANGED <<cibVars, monVars, apiVars, xmldata, open, loopvar>>

\* Cib.Decode and Cib.ToJson of pacemaker.go on a primitive
DecodeToJson ==
  /\ dec = NoDec /\ WellFormed
  /\ xmldata[1].name = "primitive"
  /\ dec' = Dec("ToJson", 1,
                Ret(Len(xmldata) + 1, ToJson(UnmarshalPrimitive(xmldata, 1))), FALSE)
  /\ UNCHANGED <<cibVars, monVars, apiVars, xmldata, open, loopvar>>

DecNext ==
  \/ \E name \in Kids("") \cup UNION {Kids(q) : q \in Kids("") \cup AttributeSetNames
                                                       \cup {"rsc_defaults"}} :
       \E names \in AttrNames(name) : StartElement(name, names)
  \/ EndElement
  \/ \E i \in 1..MaxTok : DecodeRule(i) \/ DecodeAttributeSet(i)
  \/ DecodeConfiguration
  \/ \E rev \in Revisions : DecodeCibObjects(rev)
  \/ DecodeToJson

DecInit ==
  /\ impl = "patch" /\ CibStart /\ MonStart /\ DecStart /\ ApiStart
  /\ loopvar \in {"shared", "periter"}

DecSpec == DecInit /\ [][DecNext]_vars

\* ----------------------------------------- what the document says
\* The NVPair an nvpair element stands for
ExpNVPair(se) ==
  [kind |-> "nvpair",
   Id |-> AttrVal(se.attr, "id"), IdRef |-> AttrVal(se.attr, "id-ref"),
   Name |-> AttrVal(se.attr, "name"), Value |-> AttrVal(se.attr, "value")]

RECURSIVE ExpRule(_, _)
\* The Rule a rule element stands for: its children, level by level, in order
ExpRule(toks, i) ==
  LET kids == Children(toks, i)
  IN [kind |-> "rule",
      Id |-> AttrVal(toks[i].attr, "id"), IdRef |-> AttrVal(toks[i].attr, "id-ref"),
      Score |-> AttrVal(toks[i].attr, "score"),
      Expressions |->
        [k \in 1..Len(kids) |->
           IF toks[kids[k]].name = "rule" THEN ExpRule(toks, kids[k])
           ELSE [kind |-> "expression", Id |-> AttrVal(toks[kids[k]].attr, "id")]]]

\* C13: decodeRule applied to a rule element of any nesting depth returns
\* the Rule whose Expressions hold, level by level and in source order, the
\* expression and rule children of the element, nested exactly as deep.
C13_RuleNestingDecoded ==
  dec.fn = "decodeRule" => dec.val = ExpRule(xmldata, dec.at)

\* C14: decodeRule stops reading at the end tag that closes the rule element
\* it was called on, also when rules are nested in it: the decoder is left
\* right behind that end tag.
C14_RuleStopsAtItsEndTag ==
  dec.fn = "decodeRule" => dec.pos = MatchEnd(xmldata, dec.at) + 1

\* Attribute values of the document / the values in a piece of raw XML
TokValues(toks) ==
  UNION {{toks[i].attr[k].v : k \in 1..Len(toks[i].attr)} : i \in 1..Len(toks)}

\* The values that appear in the JSON text of a primitive
JsonValues(j) ==
  ({j.id}
   \cup UNION {{j.meta_attributes[k].idref, j.meta_attributes[k].id,
                j.meta_attributes[k].score} : k \in 1..Len(j.meta_attributes)}
   \cup UNION {UNION {TokValues(j.meta_attributes[k].children[c].XML) :
                        c \in 1..Len(j.meta_attributes[k].children)} :
               k \in 1..Len(j.meta_attributes)})
  \ {Nil}

\* C15: after Decode of a valid document every identifier and attribute
\* value of it is in the ToJson output, the id, name and value of the nvpair
\* elements in the meta_attributes of a resource included.
C15_JsonKeepsEveryValue ==
  dec.fn = "ToJson" => TokValues(xmldata) \subseteq JsonValues(dec.val)

\* C16: decodeCibObjects returns an error exactly when the XML is malformed.
C16_ErrorIffMalformed ==
  dec.fn = "decodeCibObjects" => (dec.err <=> ~WellFormed)

HasIdentity(v) == v.Id # Nil \/ v.IdRef # Nil

RECURSIVE RuleIdentified(_)
RuleIdentified(r) ==
  /\ HasIdentity(r)
  /\ \A k \in 1..Len(r.Expressions) :
       r.Expressions[k].kind = "rule" => RuleIdentified(r.Expressions[k])

SetIdentified(a) ==
  /\ HasIdentity(a)
  /\ \A k \in 1..Len(a.Values) : HasIdentity(a.Values[k])
  /\ \A k \in 1..Len(a.Rules) : RuleIdentified(a.Rules[k])

\* C18: in a decoded configuration whose cluster_property_set,
\* meta_attributes, rule and nvpair elements all carry an id or an id-ref,
\* every AttributeSet, Rule and NVPair has an Id or an IdRef, the entries of
\* CrmConfig, RscDefaults and OpDefaults included.
C18_EveryEntityIdentified ==
  dec.fn = "decodeConfiguration" =>
    \A list \in {dec.val.CrmConfig, dec.val.RscDefaults, dec.val.OpDefaults} :
      \A k \in 1..Len(list) : SetIdentified(list[k])

\* C19: decodeAttributeSet of an element with an id-ref returns an
\* AttributeSet whose IdRef is the value of that attribute, and whose Values
\* and Rules are empty when the element has no children.
C19_IdRefKept ==
  (dec.fn = "decodeAttributeSet" /\ HasAttr(xmldata[dec.at].attr, "id-ref")) =>
    /\ dec.val.IdRef = AttrVal(xmldata[dec.at].attr, "id-ref")
    /\ Children(xmldata, dec.at) = <<>> =>
         (dec.val.Values = <<>> /\ dec.val.Rules = <<>>)

\* C20: Values holds one NVPair for every nvpair child of the element, in
\* document order, each with all of the id, id-ref, name and value attributes
\* of its element.
C20_OneNVPairPerChild ==
  dec.fn = "decodeAttributeSet" =>
    LET kids == SelectSeq(Children(xmldata, dec.at),
                          LAMBDA k : xmldata[k].name = "nvpair")
    IN dec.val.Values = [k \in 1..Len(kids) |-> ExpNVPair(xmldata[kids[k]])]

\* ------------------------------ unnamed/part_003: queries of a handle
\* pcmk_errorname(rc), as formatErrorRc prints it
ErrorName(rc) ==
  CASE rc = NotConn -> "ENOTCONN"
    [] rc = pcmk_ok -> "OK"
    [] OTHER -> "EPROTONOSUPPORT"

\* part_003:44-56: "%d: %s %s" of rc, its name and its description
formatErrorRc(rc) == [code |-> rc, text |-> ErrorName(rc)]

QCall(xpath, rc) == [fn |-> "go_cib_query", xpath |-> xpath, rc |-> rc]

\* a queryImpl that asks a second time when the query failed
queryImpl_retry(xpath, rc) ==
  [calls |-> IF rc # pcmk_ok THEN <<QCall(xpath, rc), QCall(xpath, rc)>>
             ELSE <<QCall(xpath, rc)>>,
   err |-> IF rc # pcmk_ok THEN formatErrorRc(rc) ELSE NoErr]

\* part_003:296-323: one go_cib_query; the error of formatErrorRc when the
\* return code is not pcmk_ok, the root otherwise.
queryImpl(xpath, rc) ==
  [calls |-> <<QCall(xpath, rc)>>,
   err |-> IF rc # pcmk_ok THEN formatErrorRc(rc) ELSE NoErr]

ApiReturn(op, q, ret, err) ==
  apiLast' = [op |-> op, calls |-> q.calls, err |-> err, ret |-> ret,
              pre |-> decoded, root |-> apiDoc]

\* part_003:354-366 and 383-395: Query and QueryXPath return the dumped
\* document, or nil and the error of queryImpl.
Query(op, xpath) ==
  \E rc \in {pcmk_ok} \cup RcErr :
    LET q == queryImpl(xpath, rc)
    IN /\ ApiReturn(op, q, IF q.err # NoErr THEN -1 ELSE apiDoc.num_updates, q.err)
       /\ UNCHANGED <<cibVars, monVars, decVars, apiDoc, decoded, options>>

\* cib_version_details of the cluster library, called at part_003:336: 1 and
\* the three numbers when the root element carries all three attributes
\* (Absent: the attribute is not there), 0 otherwise.
cib_version_details(root) ==
  [ok |-> IF Absent \in {root.admin_epoch, root.epoch, root.num_updates} THEN 0 ELSE 1,
   admin_epoch |-> root.admin_epoch, epoch |-> root.epoch,
   num_updates |-> root.num_updates]

\* part_003:326-341: what Version returns when its query returned rc: the
\* error of queryImpl, or the CibVersion of the version details, or the error
\* that there are none.
VersionResult(rc) ==
  LET q == queryImpl("/cib", rc)
      d == cib_version_details(apiDoc)
  IN [q |-> q,
      ret |-> IF q.err = NoErr /\ d.ok = 1
                THEN [AdminEpoch |-> d.admin_epoch, Epoch |-> d.epoch,
                      NumUpdates |-> d.num_updates]
              ELSE -1,
      err |-> IF q.err # NoErr THEN q.err
              ELSE IF d.ok = 1 THEN NoErr
              ELSE [code |-> 0, text |-> "Failed to get CIB version details"]]

\* part_003:326-341
Version ==
  \E rc \in {pcmk_ok} \cup RcErr :
    LET v == VersionResult(rc)
    IN /\ ApiReturn("Version", v.q, v.ret, v.err)
       /\ UNCHANGED <<cibVars, monVars, decVars, apiDoc, decoded, options>>

\* part_003:457, decoder.DecodeElement(&cib.Status, &se): encoding/xml extends
\* the slice of a field by one value for every element of its name, so the
\* node_state entries of the section are appended to those Status.NodeState
\* already has.
DecodeElement(status, section) == status \o section

\* part_003:343-352 and 440-463: Decode returns the error of Query; else
\* decodeCibObjects makes a new map of the attributes of cib (part_003:452-455)
\* and decodes the status section into cib.Status.
DecodedAfter(err) ==
  IF err # NoErr THEN decoded
  ELSE [Attr |-> apiDoc.num_updates,
        Status |-> DecodeElement(decoded.Status, apiDoc.status)]

Decode ==
  /\ Len(decoded.Status) < MaxStatus
  /\ \E rc \in {pcmk_ok} \cup RcErr :
       LET q == queryImpl("", rc)
       IN /\ ApiReturn("Decode", q, -1, q.err)
          /\ decoded' = DecodedAfter(q.err)
          /\ UNCHANGED <<cibVars, monVars, decVars, apiDoc, options>>

\* The cluster changes the document.
ApiCibUpdate ==
  /\ apiDoc.num_updates < MaxVer
  /\ \E st \in {<<1>>, <<1, 2>>} :
       apiDoc' = [apiDoc EXCEPT !.num_updates = @ + 1, !.status = st]
  /\ UNCHANGED <<cibVars, monVars, decVars, decoded, apiLast, options>>

ApiNext ==
  \/ Query("Query", "")
  \/ Query("QueryXPath", "//nodes")
  \/ Version
  \/ Decode
  \/ ApiCibUpdate

ApiInit ==
  impl = "patch" /\ CibStart /\ MonStart /\ DecStart /\ loopvar = "shared" /\ ApiStart

ApiSpec == ApiInit /\ [][ApiNext]_vars

\* C17: when the query of the session returns a code other than pcmk_ok,
\* Query, QueryXPath, Version and Decode return an error with that code, ask
\* the session once only, and Decode leaves what the handle had decoded alone.
C17_QueryErrorPropagated ==
  (apiLast.op \in {"Query", "QueryXPath", "Version", "Decode"}) =>
    /\ Len(apiLast.calls) = 1
    /\ apiLast.calls[1].rc # pcmk_ok =>
         /\ apiLast.err = formatErrorRc(apiLast.calls[1].rc)
         /\ apiLast.err.code = apiLast.calls[1].rc
         /\ apiLast.ret = -1
         /\ decoded = apiLast.pre

\* a Decode that failed on a handle holding an older decoded document
C17_Witness ==
  /\ apiLast.op = "Decode"
  /\ apiLast.calls[1].rc # pcmk_ok
  /\ decoded # Undecoded
  /\ decoded.Attr # apiDoc.num_updates

\* ------------------------------------- sections of the configuration
\* The AttributeSet an attribute-set element stands for: its own attributes,
\* its own nvpair children and its own rule children.
ExpAttributeSet(toks, i) ==
  LET kids == Children(toks, i)
      nv == SelectSeq(kids, LAMBDA k : toks[k].name = "nvpair")
      ru == SelectSeq(kids, LAMBDA k : toks[k].name = "rule")
  IN [kind |-> "attribute_set",
      Id |-> AttrVal(toks[i].attr, "id"), IdRef |-> AttrVal(toks[i].attr, "id-ref"),
      Score |-> AttrVal(toks[i].attr, "score"),
      Rules |-> [k \in 1..Len(ru) |-> ExpRule(toks, ru[k])],
      Values |-> [k \in 1..Len(nv) |-> ExpNVPair(toks[nv[k]])]]

\* The elements named name whose parent is a section element of the
\* configuration, in document order.
SetsOfSection(toks, section, name) ==
  SelectSeq([i \in 1..Len(toks) |-> i],
            LAMBDA i : /\ toks[i].k = "s" /\ toks[i].name = name
                       /\ \E j \in 1..Len(toks) :
                            /\ toks[j].k = "s" /\ toks[j].name = section
                            /\ \E c \in 1..Len(Children(toks, j)) :
                                 Children(toks, j)[c] = i)

\* C21: decodeConfiguration gives one AttributeSet in RscDefaults for each
\* meta_attributes element under rsc_defaults, and one in CrmConfig for each
\* cluster_property_set of the configuration, each with the id of its own
\* element and only its own nvpairs and rules; nothing else is added.
C21_OneSetPerSectionElement ==
  dec.fn = "decodeConfiguration" =>
    LET rd == SetsOfSection(xmldata, "rsc_defaults", "meta_attributes")
        cc == SetsOfSection(xmldata, "configuration", "cluster_property_set")
    IN /\ dec.val.RscDefaults = [k \in 1..Len(rd) |-> ExpAttributeSet(xmldata, rd[k])]
       /\ dec.val.CrmConfig = [k \in 1..Len(cc) |-> ExpAttributeSet(xmldata, cc[k])]
       /\ dec.val.OpDefaults = <<>>

\* ------------------------------------------ the resources section
\* The children of the element at i that are named name, in document order
Named(toks, i, name) ==
  SelectSeq(Children(toks, i), LAMBDA k : toks[k].name = name)

\* pacemaker.go:569-573: a group, with the primitives in it
UnmarshalGroup(toks, i) ==
  LET ps == Named(toks, i, "primitive")
  IN [id |-> AttrVal(toks[i].attr, "id"),
      children |-> [k \in 1..Len(ps) |-> AttrVal(toks[ps[k]].attr, "id")]]

\* pacemaker.go:575-585: a clone or a master, its child resource held as raw XML
UnmarshalClone(toks, i) ==
  LET kids == Children(toks, i)
  IN [id |-> AttrVal(toks[i].attr, "id"),
      child |-> [k \in 1..Len(kids) |-> cibAnyHolder(toks, kids[k])]]

\* pacemaker.go:748-766: the fields of Configuration that are filled from the
\* children of resources, each from the children with the tag of its path.
UnmarshalResources(toks, i) ==
  LET pr == Named(toks, i, "primitive")
      gr == Named(toks, i, "group")
      cl == Named(toks, i, "clone")
      ma == Named(toks, i, "master")
  IN [kind |-> "resources",
      Primitives |-> [k \in 1..Len(pr) |-> AttrVal(toks[pr[k]].attr, "id")],
      Groups |-> [k \in 1..Len(gr) |-> UnmarshalGroup(toks, gr[k])],
      Clones |-> [k \in 1..Len(cl) |-> UnmarshalClone(toks, cl[k])],
      Masters |-> [k \in 1..Len(ma) |-> UnmarshalClone(toks, ma[k])]]

\* Cib.Decode of pacemaker.go on a document with this resources section
DecodeResources ==
  /\ dec = NoDec /\ WellFormed
  /\ dec' = Dec("decodeResources", 1,
                Ret(Len(xmldata) + 1, UnmarshalResources(xmldata, 1)), FALSE)
  /\ UNCHANGED <<cibVars, monVars, apiVars, xmldata, open, loopvar>>

ResNext ==
  \/ \E name \in Kids("resources") : StartElement(name, <<"id">>)
  \/ EndElement
  \/ DecodeResources

ResInit ==
  /\ impl = "patch" /\ CibStart /\ MonStart /\ ApiStart
  /\ xmldata = <<StartTok("resources", <<>>)>> /\ open = <<"resources">>
  /\ loopvar = "shared" /\ dec = NoDec

ResSpec == ResInit /\ [][ResNext]_vars

\* The ids of the resources of one kind in the decoded configuration
DecodedIds(v, tag) ==
  CASE tag = "primitive" -> {v.Primitives[k] : k \in 1..Len(v.Primitives)}
    [] tag = "group" -> {v.Groups[k].id : k \in 1..Len(v.Groups)}
    [] tag = "clone" -> {v.Clones[k].id : k \in 1..Len(v.Clones)}
    [] tag = "master" -> {v.Masters[k].id : k \in 1..Len(v.Masters)}
    [] OTHER -> {}

\* C22: every primitive, group, clone, master and template child of the
\* resources section is in the decoded configuration, as the variant its tag
\* selects.
C22_NoResourceDropped ==
  dec.fn = "decodeResources" =>
    \A tag \in Kids("resources") :
      LET kids == Named(xmldata, 1, tag)
      IN \A k \in 1..Len(kids) :
           AttrVal(xmldata[kids[k]].attr, "id") \in DecodedIds(dec.val, tag)

\* ------------------------------------------------- the version string
MaxEpoch == 11

\* The decimal digits of a number that is not negative, as fmt's %d writes them
RECURSIVE Decimal(_)
Decimal(n) ==
  LET d == CASE n % 10 = 0 -> "0" [] n % 10 = 1 -> "1" [] n % 10 = 2 -> "2"
             [] n % 10 = 3 -> "3" [] n % 10 = 4 -> "4" [] n % 10 = 5 -> "5"
             [] n % 10 = 6 -> "6" [] n % 10 = 7 -> "7" [] n % 10 = 8 -> "8"
             [] OTHER -> "9"
  IN IF n < 10 THEN <<d>> ELSE Append(Decimal(n \div 10), d)

\* a String that writes the epoch first
CibVersion_String_swapped(ver) ==
  Decimal(ver.Epoch) \o <<":">> \o Decimal(ver.AdminEpoch) \o <<":">>
    \o Decimal(ver.NumUpdates)

\* part_003:188-190: fmt.Sprintf("%d:%d:%d", AdminEpoch, Epoch, NumUpdates),
\* the text as the sequence of its characters
CibVersion_String(ver) ==
  Decimal(ver.AdminEpoch) \o <<":">> \o Decimal(ver.Epoch) \o <<":">>
    \o Decimal(ver.NumUpdates)

\* part_006:19-35, ExampleVersion: Version, then the String of what it returned
ExampleVersion ==
  \E rc \in {pcmk_ok} \cup RcErr :
    LET v == VersionResult(rc)
    IN /\ ApiReturn("ExampleVersion", v.q,
                    IF v.err = NoErr
                      THEN [ver |-> v.ret, str |-> CibVersion_String(v.ret)]
                    ELSE -1,
                    v.err)
       /\ UNCHANGED <<cibVars, monVars, decVars, apiDoc, decoded, options>>

VerNext == Version \/ ExampleVersion \/ ApiCibUpdate

\* The handle is open on a CIB with any version numbers, or with an
\* admin_epoch attribute that is missing.
VerInit ==
  /\ impl = "patch" /\ CibStart /\ MonStart /\ DecStart /\ loopvar = "shared"
  /\ \E a \in {Absent} \cup 0..MaxEpoch : \E e \in 0..MaxEpoch :
       apiDoc = [admin_epoch |-> a, epoch |-> e, num_updates |-> 0, status |-> <<1>>]
  /\ decoded = Undecoded
  /\ apiLast = [op |-> "init", calls |-> <<>>, err |-> NoErr, ret |-> -1,
                pre |-> Undecoded, root |-> apiDoc]
  /\ options = <<>>

VerSpec == VerInit /\ [][VerNext]_vars

\* The number a sequence of decimal digits stands for
RECURSIVE Number(_)
Number(ds) ==
  IF ds = <<>> THEN 0
  ELSE 10 * Number(SubSeq(ds, 1, Len(ds) - 1))
       + (CHOOSE d \in 0..9 : Decimal(d) = <<ds[Len(ds)]>>)

\* The numbers of a text of digits and colons, in order
RECURSIVE Fields(_, _)
Fields(str, cur) ==
  IF str = <<>> THEN <<Number(cur)>>
  ELSE IF Head(str) = ":" THEN <<Number(cur)>> \o Fields(Tail(str), <<>>)
  ELSE Fields(Tail(str), Append(cur, Head(str)))

\* The query of the last call succeeded on a root element with all three
\* version attributes.
VersionAnswered ==
  /\ apiLast.op \in {"Version", "ExampleVersion"}
  /\ apiLast.calls[1].rc = pcmk_ok
  /\ apiLast.root.admin_epoch # Absent

\* C23: on a CIB whose root element carries admin_epoch = a, epoch = e and
\* num_updates = n, Version succeeds with the CibVersion (a, e, n), and String
\* writes the three in that order as decimal numbers joined by ":", so that
\* (1, 0, 0) gives "1:0:0".
C23_VersionTriple ==
  VersionAnswered =>
    LET ver == IF apiLast.op = "Version" THEN apiLast.ret ELSE apiLast.ret.ver
    IN /\ apiLast.err = NoErr
       /\ ver = [AdminEpoch |-> apiLast.root.admin_epoch, Epoch |-> apiLast.root.epoch,
                 NumUpdates |-> apiLast.root.num_updates]
       /\ apiLast.op = "ExampleVersion" =>
            /\ Fields(apiLast.ret.str, <<>>)
                 = <<apiLast.root.admin_epoch, apiLast.root.epoch, apiLast.root.num_updates>>
            /\ \A i \in 1..Len(apiLast.ret.str) :
                 apiLast.ret.str[i] = ":" \/ \E d \in 0..9 : Decimal(d) = <<apiLast.ret.str[i]>>
            /\ (ver.AdminEpoch = 1 /\ ver.Epoch = 0 /\ ver.NumUpdates = 0) =>
                 apiLast.ret.str = <<"1", ":", "0", ":", "0">>

\* the version of a CIB with a two-digit epoch that was updated, printed
C23_Witness ==
  /\ VersionAnswered
  /\ apiLast.op = "ExampleVersion"
  /\ apiLast.root.epoch >= 10 /\ apiLast.root.admin_epoch \notin {Absent, apiLast.root.epoch}
  /\ apiLast.root.num_updates > 0

\* ------------------------------------------ the monitor's reconnects
\* The scheduler lets main run; and an attempt to connect that is made again
\* and again succeeds in the end, with a Subscribe that succeeds.
MonFairness ==
  /\ WF_vars(MainStart)
  /\ WF_vars(MainReceive)
  /\ WF_vars(MainReconnect)
  /\ SF_vars((MainStart \/ MainReconnect) /\ cib' # NoCib /\ cib' \in listening')

MonLiveSpec == MonSpec /\ MonFairness

\* C24: with fair scheduling, and opening a session succeeding in the end, the
\* monitor comes to hold an open, subscribed session, also when the first
\* connect at start-up fails or Subscribe fails on a newly opened session.
C24_EventuallySubscribed ==
  <>(cib # NoCib /\ cib \in listening)

\* C25: one loss of the connection leads to one reconnect.  An event waits on
\* restarter only for the session the monitor holds, whose connection is
\* lost, and there is at most one; the session the monitor closes in state 1
\* is never a connected one; so a session opened by a reconnect is not closed
\* because of an event of the session before it.
C25_OneReconnectPerLoss ==
  /\ restarter <= 1
  /\ restarter > 0 => (state = 0 /\ cib # NoCib /\ conn[cib] = "lost")
  /\ state = 1 => (cib = NoCib \/ conn[cib] # "on")
  /\ \A i \in MonCalls("Close") :
       monLast.calls[i].ok => conn[monLast.calls[i].s] = "closed"

\* a second loss, and the event of it, after a reconnect that closed the
\* first lost session and subscribed to another
C25_Witness ==
  /\ restarter = 1
  /\ cib # NoCib /\ conn[cib] = "lost"
  /\ \E x \in MonSess : x < cib /\ conn[x] = "closed"

\* C26: at most one session is open at any time; every session OpenCib
\* returned is closed before the next is opened, those whose first Query
\* failed in connectToCib included.
C26_AtMostOneOpenSession ==
  Cardinality({x \in MonSess : conn[x] \in {"on", "lost"}}) <= 1

\* ------------------------------------------ registering once more
\* C27: after go_cib_register_notify_callbacks is called again, the first
\* diff notification makes a full query through the session just registered,
\* and neither patches nor publishes a document cached for the session
\* before.  The registration leaves s_cib at its session and the cache empty;
\* nothing but a notification fills the cache or moves s_cib; and a
\* notification that finds the cache empty queries through s_cib, applies no
\* patch, and publishes what that query gave.
C27_FirstNotificationQueries ==
  [][/\ last'.op = "subscribe" => (s_cib' = last'.h /\ s_current_cib' = NULL)
     /\ (last'.op \notin {"subscribe", "notify"} /\ s_current_cib = NULL) =>
          s_current_cib' = NULL
     /\ last'.op # "subscribe" => s_cib' = s_cib
     /\ (last'.op = "notify" /\ s_current_cib = NULL) =>
          LET c == last'.calls
          IN /\ c # <<>>
             /\ c[1].fn = "query" /\ c[1].via = s_cib
             /\ \A i \in 1..Len(c) :
                  /\ c[i].fn # "xml_apply_patchset"
                  /\ c[i].fn = "diffNotifyCallback" => c[i].doc = c[1].doc]_vars

\* the first notification after the second session was registered: it found
\* the cache empty, queried through the second session and published a new
\* document, the document cached for the first session still on the heap
C27_Witness ==
  /\ impl = "patch" /\ ~crashed
  /\ last.op = "notify" /\ last.pre = NULL
  /\ last.calls[1].fn = "query" /\ last.calls[1].via = s_cib
  /\ \E a \in Handles \ {s_cib} : subState[a] # "Unsubscribed"
  /\ subState[s_cib] = "Subscribed"
  /\ PublishedDoc \in Addr
  /\ \E x \in Addr \ {PublishedDoc} : heap[x] # NoDoc

\* ------------------------------------------- the life of one handle
\* cib.cCib of handle h: the session, or nil once Close has deleted it
\* (part_003:291-292)
cCib(h) == IF sess[h] = "deleted" THEN NoSess ELSE h

\* go_cib_signoff or go_cib_query given nil: cib->cmds of a null pointer
\* (cib.c:12-18), which ends the process.
NilSession(op, h, fn) ==
  /\ crashed' = TRUE
  /\ last' = Step(op, h, s_current_cib, <<Call(fn, NoSess, TRUE, pcmk_ok, NULL)>>,
                  pcmk_ok)
  /\ UNCHANGED <<nonCibVars, impl, sess, dnotify, diffcb, queue, cibDoc, inflight,
                 s_cib, s_current_cib, heap, pubVal, subState, streak, frozen>>

\* Cib.Close (part_003:286-294) called on a handle OpenCib returned, whatever
\* was called on it before: cib.cCib is handed to go_cib_signoff unchecked.
HandleClose(h) ==
  /\ ~crashed
  /\ sess[h] # "none"
  /\ IF cCib(h) = NoSess THEN NilSession("close", h, "signoff") ELSE Close(h)

\* Cib.Query and Cib.Decode (part_003:343-366) through queryImpl
\* (part_003:296-323): cib.cCib is handed to go_cib_query unchecked.
HandleQuery(h, op) ==
  /\ ~crashed
  /\ sess[h] # "none"
  /\ IF cCib(h) = NoSess THEN NilSession(op, h, "query")
     ELSE \E rc \in IF sess[h] = "on" THEN {pcmk_ok, NotConn} ELSE {NotConn} :
            /\ last' = Step(op, h, s_current_cib,
                            <<Call("query", cCib(h), FALSE, rc, NULL)>>, rc)
            /\ UNCHANGED <<nonCibVars, impl, sess, dnotify, diffcb, queue, cibDoc,
                           inflight, s_cib, s_current_cib, heap, pubVal, subState,
                           crashed, streak, frozen>>

HandleNext ==
  \E h \in Handles :
    \/ OpenCib(h)
    \/ Subscribe(h)
    \/ go_cib_destroy_cb(h)
    \/ ConnectionDrop(h)
    \/ HandleClose(h)
    \/ HandleQuery(h, "query")
    \/ HandleQuery(h, "decode")

HandleSpec == Init /\ [][HandleNext]_vars

\* C28: Close signs off and then deletes the session once and clears the
\* handle's pointer when the signoff succeeds; when it fails Close returns the
\* error and neither deletes nor clears; and no Close, Query or Decode on a
\* handle hands a deleted or nil session to the session layer.
C28_CloseOnceNoDeadSession ==
  /\ (last.op = "close" /\ ~crashed) =>
       LET c == last.calls
       IN /\ c[1].fn = "signoff"
          /\ IF c[1].rc = pcmk_ok
               THEN /\ Cardinality(CallsOf("cib_delete")) = 1
                    /\ c[Len(c)].fn = "cib_delete"
                    /\ cCib(last.h) = NoSess
                    /\ last.ret = pcmk_ok
               ELSE /\ Len(c) = 1
                    /\ last.ret = c[1].rc
                    /\ cCib(last.h) = last.h
  /\ last.op \in {"close", "query", "decode"} =>
       \A i \in 1..Len(last.calls) : ~last.calls[i].dead

\* ------------------------------------------------- decoding again
\* What one Decode of a document leaves on a handle
DecodedOnce(root) == [Attr |-> root.num_updates, Status |-> root.status]

\* C29: Decode called again on a handle while the CIB has not changed leaves
\* the same attributes and the same Status, the same node_state entries each
\* once and in the same order, as the first Decode did.
C29_DecodeIdempotent ==
  (apiLast.op = "Decode" /\ apiLast.err = NoErr
     /\ apiLast.pre = DecodedOnce(apiLast.root)) =>
    decoded = apiLast.pre

\* ------------------------------------------------------- OpenCib
MaxOpts == 3

\* enum cib_conn_type of the cluster library, named at part_003:67-68
cib_command == 0
cib_query == 1

\* part_003:241, config := CibOpenConfig{}: every field zero
ZeroConfig == [connection |-> 0, file |-> "", shadow |-> "", server |-> ""]

\* part_003:82-110: the option functions OpenCib can be given
OptionSet ==
  {[name |-> "ForQuery", arg |-> ""], [name |-> "ForCommand", arg |-> ""],
   [name |-> "FromFile", arg |-> "cib.xml"], [name |-> "FromShadow", arg |-> "test"],
   [name |-> "FromRemote", arg |-> "node1"]}

\* part_003:82-110: what an option does to the config it is applied to
ApplyOption(opt, config) ==
  CASE opt.name = "ForQuery" -> [config EXCEPT !.connection = cib_query]
    [] opt.name = "ForCommand" -> [config EXCEPT !.connection = cib_command]
    [] opt.name = "FromFile" -> [config EXCEPT !.file = opt.arg]
    [] opt.name = "FromShadow" -> [config EXCEPT !.shadow = opt.arg]
    [] OTHER -> [config EXCEPT !.server = opt.arg]

RECURSIVE ApplyOptions(_, _)
\* part_003:242-244: for _, opt := range options { opt(&config) }
ApplyOptions(opts, config) ==
  IF opts = <<>> THEN config
  ELSE ApplyOptions(Tail(opts), ApplyOption(Head(opts), config))

\* part_003:245-247
ConnectionOf(config) ==
  IF config.connection # cib_query /\ config.connection # cib_command
    THEN cib_query
  ELSE config.connection

\* a choice that looks for a remote server before a shadow
BackendOf_remote_first(config) ==
  IF config.file # "" THEN "cib_file_new"
  ELSE IF config.server # "" THEN "cib_remote_new"
  ELSE IF config.shadow # "" THEN "cib_shadow_new"
  ELSE "cib_new"

\* part_003:248-270: the constructor the session is made with
BackendOf(config) ==
  IF config.file # "" THEN "cib_file_new"
  ELSE IF config.shadow # "" THEN "cib_shadow_new"
  ELSE IF config.server # "" THEN "cib_remote_new"
  ELSE "cib_new"

\* The caller adds an option to those it will call OpenCib with.
AddOption(opt) ==
  /\ apiLast.op = "init"
  /\ Len(options) < MaxOpts
  /\ options' = Append(options, opt)
  /\ UNCHANGED <<cibVars, monVars, decVars, apiDoc, decoded, apiLast>>

\* part_003:239-278, OpenCib(options...): nil and the error of formatErrorRc
\* when the signon fails, the handle otherwise.
OpenCibWith ==
  /\ apiLast.op = "init"
  /\ \E rc \in {pcmk_ok} \cup RcErr :
       LET config == ApplyOptions(options, ZeroConfig)
           on == [fn |-> "go_cib_signon", backend |-> BackendOf(config),
                  connection |-> ConnectionOf(config), rc |-> rc]
       IN apiLast' = [op |-> "OpenCib", calls |-> <<on>>,
                      err |-> IF rc # pcmk_ok THEN formatErrorRc(rc) ELSE NoErr,
                      ret |-> IF rc # pcmk_ok THEN "nil" ELSE "cib",
                      pre |-> decoded, root |-> apiDoc]
  /\ UNCHANGED <<cibVars, monVars, decVars, apiDoc, decoded, options>>

OpenNext ==
  \/ \E opt \in OptionSet : AddOption(opt)
  \/ OpenCibWith

OpenSpec == ApiInit /\ [][OpenNext]_vars

\* An option of this kind is among those passed
Passed(name) == \E i \in 1..Len(options) : options[i].name = name

\* C30: OpenCib makes the session from the file if a file was passed, else
\* from the shadow, else from the remote server, else as the local default,
\* in whatever order the options were passed; the connection type of the
\* signon is Query or Command; and when the signon fails it returns nil and
\* the error.
C30_BackendPriority ==
  apiLast.op = "OpenCib" =>
    LET on == apiLast.calls[1]
    IN /\ on.backend = (IF Passed("FromFile") THEN "cib_file_new"
                        ELSE IF Passed("FromShadow") THEN "cib_shadow_new"
                        ELSE IF Passed("FromRemote") THEN "cib_remote_new"
                        ELSE "cib_new")
       /\ on.connection \in {cib_query, cib_command}
       /\ on.rc # pcmk_ok =>
            (apiLast.ret = "nil" /\ apiLast.err = formatErrorRc(on.rc))
       /\ on.rc = pcmk_ok => (apiLast.ret = "cib" /\ apiLast.err = NoErr)

\* OpenCib given a remote server, then a shadow, then ForCommand: it took the
\* shadow, and the signon failed
C30_Witness ==
  /\ apiLast.op = "OpenCib"
  /\ options = <<[name |-> "FromRemote", arg |-> "node1"],
                 [name |-> "FromShadow", arg |-> "test"],
                 [name |-> "ForCommand", arg |-> ""]>>
  /\ apiLast.calls[1].backend = "cib_shadow_new"
  /\ apiLast.calls[1].connection = cib_command
  /\ apiLast.ret = "nil"

====
